---- MODULE Spec2Model ----
(***************************************************************************)
(* The comic-strip generator of userstud58/comwork.  The repository holds  *)
(* three builds of the same page script:                                   *)
(*   src/index.tsx          single chat, one stream, text/image pairing    *)
(*   src/unnamed/part_000   the same with an API-key screen                *)
(*   src/unnamed/part_001   two chats: a script request, then one image    *)
(*                          stream per panel                               *)
(* Three specifications:                                                   *)
(*   Spec        the page of part_001: user events, overlapping runs of    *)
(*               generate(), the DOM it writes                             *)
(*   SpecStream  one response stream consumed by the part loop of each     *)
(*               build                                                     *)
(*   SpecScript  generateScript's post-processing of one response text     *)
(* Suspension points are the network awaits (sendMessage, sendMessageStream*)
(* and each chunk of a stream); "await marked.parse(..)" and               *)
(* "await addSlide(..)" resume in the same microtask checkpoint, so they    *)
(* are part of the step that reaches them.                                 *)
(***************************************************************************)
EXTENDS Integers, Sequences, FiniteSets, TLC

\* ---------------------------------------------------------------- bounds
MaxRuns   == 2    \* calls of generate() that start a run, per behaviour
MaxPanels == 2    \* panels of a script
MaxStream == 2    \* parts of one panel stream (Spec)
MaxParts  == 4    \* parts of one stream (SpecStream)
MaxTokens == 5    \* tokens of one response text (SpecScript)

VARIABLES
  \* --- Spec: the page of part_001
  textChat,           \* textChat and imageChat are set (both or neither)
  userInputValue,     \* userInput.value
  userInputDisabled,  \* userInput.disabled
  modelOutput,        \* children of #output: the story echoes
  slideshow,          \* children of #slideshow
  slideshowHidden,    \* #slideshow hidden attribute
  status,             \* #status: [text, hidden]
  error,              \* #error:  [msg, hidden]
  textHistory,        \* the textChat session holds turns of earlier requests
  imageHistory,       \* the imageChat session holds turns of earlier requests
  runs,               \* the suspended calls of generate(), by start number
  started,            \* calls of generate() that passed the guard so far
  lastEnded,          \* the call that ended last and how: [run, outcome]
  \* --- SpecStream: one stream through the part loop of a build
  build, sPc, sText, sImg, sSlides, sError, received, pairings,
  \* --- SpecScript: generateScript on one response text
  jsonText, scriptPc, scriptResult

pageVars   == <<textChat, userInputValue, userInputDisabled, modelOutput,
                slideshow, slideshowHidden, status, error, textHistory,
                imageHistory, runs, started, lastEnded>>
streamVars == <<build, sPc, sText, sImg, sSlides, sError, received, pairings>>
scriptVars == <<jsonText, scriptPc, scriptResult>>
vars       == <<pageVars, streamVars, scriptVars>>

\* ------------------------------------------------------------ small helpers
SeqsUpTo(S, n) == UNION {[1..k -> S] : k \in 0..n}

\* ================================================================= strings
\* A string is a sequence of characters; " " and "\n" are the white space.
WhiteSpace == {" ", "\n"}

RECURSIVE TrimStart(_)
TrimStart(s) ==
  IF s # <<>> /\ Head(s) \in WhiteSpace THEN TrimStart(Tail(s)) ELSE s

RECURSIVE TrimEnd(_)
TrimEnd(s) ==
  IF s # <<>> /\ s[Len(s)] \in WhiteSpace
  THEN TrimEnd(SubSeq(s, 1, Len(s) - 1)) ELSE s

\* String.prototype.trim
Trim(s) == TrimEnd(TrimStart(s))

\* ===================================================== generateScript (text)
\* A response text is a sequence of tokens: the three-backtick fence, the word json,
\* white space, a JSON document (named by the value it denotes) or other text.
Tok(t, n) == [t |-> t, n |-> n]
Fence    == Tok("fence", 0)
WordJson == Tok("json", 0)
Newline  == Tok("\n", 0)
Space    == Tok(" ", 0)
Junk     == Tok("junk", 0)
\* JSON documents: null, an object without panels, an object whose panels is
\* a number, and objects whose panels is an array of n >= 0 panels.
DocNull      == Tok("null", 0)
DocNoPanels  == Tok("{characterDescription}", 0)
DocPanelsNum == Tok("{panels:5}", 0)
DocPanels(n) == Tok("{panels:[..]}", n)

TokWhite == {Newline, Space}
JsonDocs == {DocNull, DocNoPanels, DocPanelsNum} \cup {DocPanels(n) : n \in 0..MaxPanels}

\* The text of panel i of a script is PanelText(i).
PanelText(i) == <<"panel", ToString(i)>>

\* Values JSON.parse can return, and the SyntaxError it throws.
SyntaxError == [kind |-> "SyntaxError", panels |-> "-", items |-> <<>>]
JsonNull    == [kind |-> "null", panels |-> "-", items |-> <<>>]
JsonObject(panels, n) ==
  [kind |-> "object", panels |-> panels, items |-> [i \in 1..n |-> PanelText(i)]]

JsonValue(tok) ==
  CASE tok = DocNull      -> JsonNull
    [] tok = DocNoPanels  -> JsonObject("undefined", 0)
    [] tok = DocPanelsNum -> JsonObject("number", 0)
    [] OTHER              -> JsonObject("array", tok.n)

RECURSIVE SkipWhite(_)
SkipWhite(s) ==
  IF s # <<>> /\ Head(s) \in TokWhite THEN SkipWhite(Tail(s)) ELSE s

RECURSIVE DropWhiteEnd(_)
DropWhiteEnd(s) ==
  IF s # <<>> /\ s[Len(s)] \in TokWhite
  THEN DropWhiteEnd(SubSeq(s, 1, Len(s) - 1)) ELSE s

\* jsonText.replace(/^FENCEjson\s*/, ""), FENCE being the three backticks
StripOpeningFence(s) ==
  IF Len(s) >= 2 /\ s[1] = Fence /\ s[2] = WordJson
  THEN SkipWhite(SubSeq(s, 3, Len(s))) ELSE s

\* .replace(/FENCE$/, "")   ($ without the m flag: the very end of the text)
StripClosingFence(s) ==
  IF s # <<>> /\ s[Len(s)] = Fence THEN SubSeq(s, 1, Len(s) - 1) ELSE s

CleanJsonText(s) == StripClosingFence(StripOpeningFence(s))

\* JSON.parse: one document, white space allowed around it.
JsonParse(s) ==
  LET body == DropWhiteEnd(SkipWhite(s))
  IN  IF Len(body) = 1 /\ body[1] \in JsonDocs THEN JsonValue(body[1])
      ELSE SyntaxError

\* What generateScript returns for a settled sendMessage: resp is "rejected"
\* or the response text.  [script, caught]: caught is the catch block, which
\* shows the Scriptwriting error and returns null.
TransportError == <<Tok("rejected", 0)>>

GenerateScriptResult(resp) ==
  IF resp = TransportError \/ resp = <<>>
  THEN [script |-> JsonNull, caught |-> TRUE]
  ELSE LET v == JsonParse(CleanJsonText(resp))
       IN  IF v = SyntaxError THEN [script |-> JsonNull, caught |-> TRUE]
           ELSE [script |-> v, caught |-> FALSE]

\* ========================================================== stream parts
\* A Part carries text, inline image data, or neither (empty text, or a
\* kind of part the page ignores).
NoData    == "none"
TextFrags == {<<"A">>, <<"B">>}
ImageData == {"I1", "I2"}
TextPart(t)  == [text |-> t, inlineData |-> NoData]
ImagePart(d) == [text |-> <<>>, inlineData |-> d]
EmptyPart    == TextPart(<<>>)
Parts == {TextPart(t) : t \in TextFrags} \cup {ImagePart(d) : d \in ImageData}
           \cup {EmptyPart}

\* img = document.createElement("img"); img.src = "data:image/png;base64," + data
NullImg  == [src |-> <<>>]
Img(d)   == [src |-> <<"data:image/png;base64,", d>>]

\* marked.parse(text): a paragraph of HTML for a non-empty text.
Marked(t) == IF t = <<>> THEN <<>> ELSE <<"<p>">> \o t \o <<"</p>">>

\* The div.slide that addSlide appends: the image, then the caption.
Slide(text, image) == [image |-> image, caption |-> Marked(text)]

\* The locals of a part loop.  budget is the number of addSlide calls that
\* succeed before marked.parse throws in this step; thrown is the exception
\* on its way to the catch block; pairings counts the times the pairing
\* condition "text && img" was found true.
Locals(t, i, sl, pr, bd) ==
  [text |-> t, img |-> i, slides |-> sl, pairings |-> pr,
   budget |-> bd, thrown |-> FALSE]

\* (mutant) an image already held is kept: first one wins
TakePartKeepFirst(st, part) ==
  IF part.text # <<>> THEN [st EXCEPT !.text = st.text \o part.text]
  ELSE IF part.inlineData # NoData /\ st.img = NullImg
       THEN [st EXCEPT !.img = Img(part.inlineData)]
  ELSE st

\* (mutant) text = part.text: a text part replaces the accumulator
TakePartReplaceText(st, part) ==
  IF part.text # <<>> THEN [st EXCEPT !.text = part.text]
  ELSE IF part.inlineData # NoData THEN [st EXCEPT !.img = Img(part.inlineData)]
  ELSE st

\* if (part.text) text += part.text; else if (part.inlineData) img = ...
TakePart(st, part) ==
  IF part.text # <<>> THEN [st EXCEPT !.text = st.text \o part.text]
  ELSE IF part.inlineData # NoData THEN [st EXCEPT !.img = Img(part.inlineData)]
  ELSE st

\* await addSlide(text, img) inside a part loop or after it.
AddSlideTo(st, text, image) ==
  IF st.budget = 0 THEN [st EXCEPT !.thrown = TRUE]
  ELSE [st EXCEPT !.slides = Append(st.slides, Slide(text, image)),
                  !.budget = st.budget - 1]

\* if (text && img) { await addSlide(text, img); text = ""; img = null; }
PairNow(st) ==
  IF st.text # <<>> /\ st.img # NullImg
  THEN LET a == AddSlideTo([st EXCEPT !.pairings = st.pairings + 1], st.text, st.img)
       IN  IF a.thrown THEN a ELSE [a EXCEPT !.text = <<>>, !.img = NullImg]
  ELSE st

\* One part in the loop of index.tsx and part_000: take it, then pair.
EagerPart(st, part) == PairNow(TakePart(st, part))

\* One part in the per-panel loop of part_001: take it; nothing is paired.
PanelPart(st, part) == TakePart(st, part)

\* for (const part of parts) { ... } of one chunk in part_001.
RECURSIVE PanelParts(_, _)
PanelParts(st, parts) ==
  IF parts = <<>> THEN st
  ELSE PanelParts(PanelPart(st, Head(parts)), Tail(parts))

\* (mutant) the pairing check placed after the loop over a chunk's parts
EagerPartsPairAtChunkEnd(st, parts) == PairNow(PanelParts(st, parts))

\* for (const part of parts) { ... } of one chunk in index.tsx and part_000;
\* an exception ends the loop.
RECURSIVE EagerParts(_, _)
EagerParts(st, parts) ==
  IF parts = <<>> \/ st.thrown THEN st
  ELSE EagerParts(EagerPart(st, Head(parts)), Tail(parts))

\* After the chunk loop.  index.tsx: a held image is flushed as a slide.
IndexStreamEnd(st) ==
  IF st.img # NullImg
  THEN LET a == AddSlideTo(st, st.text, st.img)
       IN  IF a.thrown THEN a ELSE [a EXCEPT !.text = <<>>]
  ELSE st

\* part_000: nothing follows the loop.
KeyStreamEnd(st) == st

\* part_001: one slide of the panel text and the held image, or an Error.
PanelStreamEnd(st, panelText) ==
  IF st.img # NullImg THEN AddSlideTo(st, panelText, st.img)
  ELSE [st EXCEPT !.thrown = TRUE]

\* ------------------------------------------------------------ SpecStream
Builds == {"index.tsx", "part_000", "part_001"}

\* The most addSlide calls a chunk of n parts can make.
MaxSlidesOf(n) == (n + 1) \div 2

StreamLocals(budget) == Locals(sText, sImg, sSlides, pairings, budget)

StreamInit ==
  /\ build \in Builds
  /\ sPc = "streaming"
  /\ sText = <<>>
  /\ sImg = NullImg
  /\ sSlides = <<>>
  /\ sError = FALSE
  /\ received = <<>>
  /\ pairings = 0

StreamSet(st, pc) ==
  /\ sText' = st.text
  /\ sImg' = st.img
  /\ sSlides' = st.slides
  /\ pairings' = st.pairings
  /\ sError' = st.thrown
  /\ sPc' = IF st.thrown THEN "failed" ELSE pc

\* The stream yields a chunk; its parts go through the loop of the build.
StreamChunk(parts, budget) ==
  /\ sPc = "streaming"
  /\ Len(received) + Len(parts) <= MaxParts
  /\ received' = received \o parts
  /\ LET st == IF build = "part_001"
               THEN PanelParts(StreamLocals(budget), parts)
               ELSE EagerParts(StreamLocals(budget), parts)
     IN  StreamSet(st, "streaming")
  /\ UNCHANGED build

\* The stream is exhausted.
StreamEnd(budget) ==
  /\ sPc = "streaming"
  /\ LET st == CASE build = "index.tsx" -> IndexStreamEnd(StreamLocals(budget))
                 [] build = "part_000"  -> KeyStreamEnd(StreamLocals(budget))
                 [] build = "part_001"  ->
                      PanelStreamEnd(StreamLocals(budget), PanelText(1))
     IN  StreamSet(st, "done")
  /\ UNCHANGED <<build, received>>

\* The stream rejects (network error, malformed chunk, API error).
StreamRejects ==
  /\ sPc = "streaming"
  /\ sPc' = "failed"
  /\ sError' = TRUE
  /\ UNCHANGED <<build, sText, sImg, sSlides, received, pairings>>

\* ------------------------------------------------------------ SpecScript
\* The tokens response texts are drawn from.
ScriptTokens == {Fence, WordJson, Newline, Junk, DocNull, DocPanels(1)}

ScriptInit ==
  /\ jsonText \in SeqsUpTo(ScriptTokens, MaxTokens) \cup {TransportError}
  /\ scriptPc = "pending"
  /\ scriptResult = [script |-> JsonNull, caught |-> FALSE]

\* await textChat.sendMessage(..) settles and generateScript returns.
ScriptSettles ==
  /\ scriptPc = "pending"
  /\ scriptPc' = "returned"
  /\ scriptResult' = GenerateScriptResult(jsonText)
  /\ UNCHANGED jsonText

\* ============================================================ the page (Spec)
\* What the user types before Enter, and the text of the example items.
TypedValues     == {<<>>, <<" ">>, <<" ", "a">>}
ExampleContents == {<<>>, <<" ">>, <<" ", "a">>}

\* Response texts of the text model: empty, not JSON, JSON without usable
\* panels, bare and fenced scripts of 1..MaxPanels panels.
ResponseTexts ==
  {<<>>, <<Junk>>, <<DocNoPanels>>, <<DocPanelsNum>>, <<DocPanels(0)>>}
    \cup {<<DocPanels(n)>> : n \in 1..MaxPanels}
    \cup {<<Fence, WordJson, Newline, DocPanels(1), Newline, Fence>>}

\* Parts of the stream of panel k of run r.  The image data the service
\* sends in a stream is named after the request it answers.
ImageOf(r, k) == "img-" \o ToString(r) \o "-" \o ToString(k)
PageParts(r, k) == {TextPart(<<"A">>), ImagePart(ImageOf(r, k))}

\* setStatus(message, show) and setError(message, show)
SetStatus(message, show) == [text |-> message, hidden |-> ~show]
SetError(message, show)  == [msg |-> message, hidden |-> ~show]

WritingScript == <<"Writing the script...">>
GeneratingPanel(k, n) == <<"Generating panel", ToString(k), "of", ToString(n)>>
ScriptwritingFailed(cause) == <<"Scriptwriting Failed", cause>>
\* (mutant) the message with the 0-based index of the panel
PanelFailedZeroBased(k, text, cause) ==
  <<"Panel", ToString(k - 1), "Failed">> \o text \o <<cause>>

PanelFailed(k, text, cause) == <<"Panel", ToString(k), "Failed">> \o text \o <<cause>>

\* A call ends in one of three ways: it returns after all panels (Done),
\* returns after a script or panel failure (Failed), or throws (Crashed).

\* A call of generate() past its guard: where it is suspended, and its
\* locals story, script.panels and panelCount.  (text and img live within
\* one turn of the panel loop; see PanelStreamEnds.)
Run(pc, story, panels, panelCount) ==
  [pc |-> pc, story |-> story, panels |-> panels, panelCount |-> panelCount]

\* Run r has returned or thrown: its frame is gone.
EndRun(r, outcome) ==
  /\ runs' = [x \in DOMAIN runs \ {r} |-> runs[x]]
  /\ lastEnded' = [run |-> r, outcome |-> outcome]

PageInit ==
  /\ textChat = FALSE
  /\ userInputValue = <<>>
  /\ userInputDisabled = FALSE
  /\ modelOutput = <<>>
  /\ slideshow = <<>>
  /\ slideshowHidden = TRUE
  /\ status = SetStatus(<<>>, FALSE)
  /\ error = SetError(<<>>, FALSE)
  /\ textHistory = FALSE
  /\ imageHistory = FALSE
  /\ runs = <<>>
  /\ started = 0
  /\ lastEnded = [run |-> 0, outcome |-> "-"]

\* initializeGenAI succeeds: both chats are created, the main content shown.
InitializeGenAI ==
  /\ ~textChat
  /\ textChat' = TRUE
  /\ UNCHANGED <<userInputValue, userInputDisabled, modelOutput, slideshow,
                 slideshowHidden, status, error, textHistory, imageHistory,
                 runs, started, lastEnded>>

\* (mutant) the guard without the test of the story
GenerateGuardNoEmptyCheck(story) == textChat

\* if (!textChat || !imageChat || !story.trim()) return;
GenerateGuard(story) == textChat /\ Trim(story) # <<>>

\* generate(story) up to its first suspension, the sendMessage of
\* generateScript.
Generate(story) ==
  IF ~GenerateGuard(story)
  THEN UNCHANGED <<userInputDisabled, modelOutput, slideshow, slideshowHidden,
                   status, error, runs, started, lastEnded>>
  ELSE /\ started < MaxRuns
       /\ userInputDisabled' = TRUE
       /\ modelOutput' = <<>>
       /\ slideshow' = <<>>
       /\ slideshowHidden' = TRUE
       /\ error' = SetError(<<>>, FALSE)
       /\ status' = SetStatus(WritingScript, TRUE)
       /\ started' = started + 1
       /\ runs' = (started + 1 :> Run("script", story, <<>>, 0)) @@ runs
       /\ UNCHANGED lastEnded

\* keydown listener: Enter in the textarea holding v.  A disabled textarea
\* receives no key events.
KeyEnter(v) ==
  /\ ~userInputDisabled
  /\ userInputValue' = v
  /\ Generate(Trim(v))
  /\ UNCHANGED <<textChat, textHistory, imageHistory>>

\* click listener of an example item of text content c.  The items are not
\* disabled with the textarea.
ExampleClick(c) ==
  /\ IF c # <<>>
     THEN userInputValue' = c /\ Generate(Trim(c))
     ELSE UNCHANGED <<userInputValue, userInputDisabled, modelOutput, slideshow,
                      slideshowHidden, status, error, runs, started, lastEnded>>
  /\ UNCHANGED <<textChat, textHistory, imageHistory>>

\* How generateScript failed, for the detail of the message and the run.
ScriptCause(resp, res) ==
  IF resp = TransportError THEN "transport"
  ELSE IF resp = <<>> THEN "empty"
  ELSE IF res.caught THEN "syntax"
  ELSE "nopanels"

\* !script || !script.panels || script.panels.length === 0
NoPanels(script) ==
  \/ script.kind = "null"
  \/ script.panels = "undefined"
  \/ script.panels = "array" /\ Len(script.items) = 0

\* The lines after the panel loop: setStatus("", false), re-enable, focus.
FinishRun(r, pc) ==
  /\ status' = SetStatus(<<>>, FALSE)
  /\ userInputDisabled' = FALSE
  /\ EndRun(r, pc)

\* (mutant) the loop starting from the last panel of the script
StartPanelFromLast(r, panels, k) ==
  /\ status' = SetStatus(GeneratingPanel(Len(panels) - k + 1, Len(panels)), TRUE)
  /\ runs' = [runs EXCEPT ![r] = Run("stream", runs[r].story, panels,
                                      Len(panels) - k + 1)]
  /\ UNCHANGED lastEnded

\* The head of one turn of the panel loop: count, status, sendMessageStream.
StartPanel(r, panels, k) ==
  /\ status' = SetStatus(GeneratingPanel(k, Len(panels)), TRUE)
  /\ runs' = [runs EXCEPT ![r] = Run("stream", runs[r].story, panels, k)]
  /\ UNCHANGED lastEnded

\* textChat.sendMessage settles for run r: the rest of generateScript, then
\* generate up to the first sendMessageStream.  resp is the response text or
\* the rejection; echoOk is whether marked.parse(story) returns.
ScriptResponse(r, resp, echoOk) ==
  LET res    == GenerateScriptResult(resp)
      script == res.script
      cause  == ScriptCause(resp, res)
      shown  == IF res.caught THEN SetError(ScriptwritingFailed(cause), TRUE)
                ELSE error
  IN
  /\ runs[r].pc = "script"
  /\ textHistory' = (textHistory \/ resp # TransportError)
  /\ error' = shown
  /\ IF NoPanels(script)
     THEN /\ FinishRun(r, "Failed")
          /\ UNCHANGED <<modelOutput, userInputValue>>
     ELSE IF ~echoOk
     THEN \* marked.parse(story) throws outside any try block
          /\ EndRun(r, "Crashed")
          /\ UNCHANGED <<modelOutput, userInputValue, status, userInputDisabled>>
     ELSE /\ modelOutput' = Append(modelOutput, Marked(runs[r].story))
          /\ userInputValue' = <<>>
          /\ IF script.panels = "array"
             THEN StartPanel(r, script.items, 1) /\ UNCHANGED userInputDisabled
             ELSE \* for (const panel of 5): TypeError outside any try block
                  /\ EndRun(r, "Crashed")
                  /\ UNCHANGED <<status, userInputDisabled>>
  /\ UNCHANGED <<textChat, slideshow, slideshowHidden, imageHistory, started>>

\* (mutant) the catch block without break: the loop goes on to the next panel
PanelCatchContinues(r, cause) ==
  LET run == runs[r] IN
  /\ error' = SetError(PanelFailed(run.panelCount,
                                   run.panels[run.panelCount], cause), TRUE)
  /\ IF run.panelCount < Len(run.panels)
     THEN StartPanel(r, run.panels, run.panelCount + 1)
            /\ UNCHANGED userInputDisabled
     ELSE FinishRun(r, "Failed")

\* catch (e) of the panel loop: the message, break, then the closing lines.
PanelCatch(r, cause) ==
  LET run == runs[r] IN
  /\ error' = SetError(PanelFailed(run.panelCount,
                                   run.panels[run.panelCount], cause), TRUE)
  /\ FinishRun(r, "Failed")

\* (mutant) img declared outside the loop: a turn starts with the image the
\* turn before it held
PanelLocalsKeepHeld(parts, budget) ==
  PanelParts(Locals(<<>>,
                    IF slideshow = <<>> THEN NullImg
                    ELSE slideshow[Len(slideshow)].image,
                    slideshow, 0, budget), parts)

\* The locals of one turn of the panel loop after the stream yielded parts.
\* The chunks of a stream arrive one await at a time, but the loop over them
\* writes only text and img of its own turn, which no other step reads: the
\* page sees a stream when it is exhausted or rejects.
PanelLocals(parts, budget) ==
  PanelParts(Locals(<<>>, NullImg, slideshow, 0, budget), parts)

\* The stream of panel panelCount of run r yielded parts and is exhausted:
\* addSlide or the Error, then the next turn of the loop or its end.
\* budget 0: marked.parse throws in addSlide.
PanelStreamEnds(r, parts, budget) ==
  LET run  == runs[r]
      held == PanelLocals(parts, budget)
      st   == PanelStreamEnd(held, run.panels[run.panelCount])
  IN
  /\ run.pc = "stream"
  /\ imageHistory' = TRUE
  /\ IF st.thrown
     THEN /\ PanelCatch(r, IF held.img = NullImg THEN "noimage" ELSE "render")
          /\ UNCHANGED <<slideshow, slideshowHidden>>
     ELSE /\ slideshow' = st.slides
          /\ slideshowHidden' = FALSE
          /\ error' = error
          /\ IF run.panelCount < Len(run.panels)
             THEN StartPanel(r, run.panels, run.panelCount + 1)
                    /\ UNCHANGED userInputDisabled
             ELSE FinishRun(r, "Done")
  /\ UNCHANGED <<textChat, userInputValue, modelOutput, textHistory, started>>

\* sendMessageStream or the stream of run r rejects.
PanelStreamRejects(r) ==
  /\ runs[r].pc = "stream"
  /\ PanelCatch(r, "stream")
  /\ UNCHANGED <<textChat, userInputValue, modelOutput, slideshow,
                 slideshowHidden, textHistory, imageHistory, started>>

\* ------------------------------------------------------- specifications
\* marked.parse(story) is reached, and so may throw, only with usable panels.
EchoOutcomes(resp) ==
  IF NoPanels(GenerateScriptResult(resp).script) THEN {TRUE} ELSE BOOLEAN

\* addSlide is reached, and so may throw, only with an image held.
RenderBudgets(parts) ==
  IF PanelLocals(parts, 1).img = NullImg THEN {1} ELSE 0..1

PageIdle   == PageInit
StreamIdle == build = "part_000" /\ StreamInit
ScriptIdle == jsonText = <<>> /\ ScriptInit

Init == PageInit /\ StreamIdle /\ ScriptIdle

Next ==
  \/ InitializeGenAI /\ UNCHANGED <<streamVars, scriptVars>>
  \/ \E v \in TypedValues : KeyEnter(v) /\ UNCHANGED <<streamVars, scriptVars>>
  \/ \E c \in ExampleContents : ExampleClick(c) /\ UNCHANGED <<streamVars, scriptVars>>
  \/ \E r \in DOMAIN runs : \E resp \in ResponseTexts \cup {TransportError} :
       \E echoOk \in EchoOutcomes(resp) :
         ScriptResponse(r, resp, echoOk) /\ UNCHANGED <<streamVars, scriptVars>>
  \/ \E r \in DOMAIN runs :
       \E parts \in SeqsUpTo(PageParts(r, runs[r].panelCount), MaxStream) :
         \E budget \in RenderBudgets(parts) :
           PanelStreamEnds(r, parts, budget) /\ UNCHANGED <<streamVars, scriptVars>>
  \/ \E r \in DOMAIN runs :
       PanelStreamRejects(r) /\ UNCHANGED <<streamVars, scriptVars>>

Spec == Init /\ [][Next]_vars

InitStream == StreamInit /\ PageIdle /\ ScriptIdle
NextStream ==
  \/ \E parts \in SeqsUpTo(Parts, MaxParts - Len(received)) :
       \E budget \in 0..MaxSlidesOf(Len(parts)) :
         StreamChunk(parts, budget) /\ UNCHANGED <<pageVars, scriptVars>>
  \/ \E budget \in 0..1 : StreamEnd(budget) /\ UNCHANGED <<pageVars, scriptVars>>
  \/ StreamRejects /\ UNCHANGED <<pageVars, scriptVars>>
SpecStream == InitStream /\ [][NextStream]_vars

InitScript == ScriptInit /\ PageIdle /\ StreamIdle
NextScript == ScriptSettles /\ UNCHANGED <<pageVars, streamVars>>
SpecScript == InitScript /\ [][NextScript]_vars

\* =================================================================== claims
PartsABAB == <<TextPart(<<"A">>), ImagePart("I1"), TextPart(<<"B">>), ImagePart("I2")>>

\* C1 (as claimed; SpecStream): in index.tsx and part_000, once the stream
\* is consumed, as many slides were emitted as there were moments with a
\* non-empty text accumulator and a held image, every slide has a non-empty
\* text and an image, and nothing left unpaired at the end became a slide.
C1_SlideIffPaired ==
  (build \in {"index.tsx", "part_000"} /\ sPc = "done") =>
    /\ Len(sSlides) = pairings
    /\ \A i \in DOMAIN sSlides :
         sSlides[i].caption # <<>> /\ sSlides[i].image # NullImg

\* C2 (as claimed; Spec): two runs never interleave: at most one call of
\* generate() is between disabling and re-enabling the input.
C2_RunsNeverInterleave == Cardinality(DOMAIN runs) <= 1

\* The step of C3: the stream of panel k of a run is exhausted without an
\* image part; after it the slideshow holds exactly the k-1 slides of panels
\* 1..k-1 of that run, visible, the run has ended Failed, and its frame is
\* gone, so it issues no request for panels k+1..n.
C3_Step ==
     \A r \in DOMAIN runs :
       runs[r].pc = "stream" =>
         \A parts \in SeqsUpTo(PageParts(r, runs[r].panelCount), MaxStream) :
           (PanelLocals(parts, 1).img = NullImg /\ PanelStreamEnds(r, parts, 1)) =>
             /\ slideshow' = [i \in 1..(runs[r].panelCount - 1) |->
                                Slide(runs[r].panels[i], Img(ImageOf(r, i)))]
             /\ (runs[r].panelCount > 1 => ~slideshowHidden')
             /\ lastEnded' = [run |-> r, outcome |-> "Failed"]
             /\ r \notin DOMAIN runs'

\* C3 (as claimed; Spec): when the stream of panel k of a run is exhausted
\* without an image part, exactly the k-1 slides of panels 1..k-1 are
\* rendered and visible, the run ends Failed and no request is issued for
\* panels k+1..n.
C3_PanelFailureKeepsEarlierSlides == [][C3_Step]_vars

\* The three ways script generation fails, by the response text.
EmptyResponse(resp)   == resp = <<>>
InvalidJson(resp)     == resp # <<>> /\ JsonParse(CleanJsonText(resp)) = SyntaxError
NoUsablePanels(resp)  ==
  /\ resp # <<>>
  /\ JsonParse(CleanJsonText(resp)) # SyntaxError
  /\ NoPanels(JsonParse(CleanJsonText(resp)))

\* C4 (as claimed; Spec): when the text model answers with an empty text,
\* with text that is not valid JSON once cleaned, or with JSON without panels
\* or with an empty panels list, the run ends with an error message shown and
\* no panel rendered.
C4_ScriptFailureShowsError ==
  [][\A r \in DOMAIN runs : \A resp \in ResponseTexts :
       (/\ runs[r].pc = "script"
        /\ EmptyResponse(resp) \/ InvalidJson(resp) \/ NoUsablePanels(resp)
        /\ ScriptResponse(r, resp, TRUE)) =>
         /\ ~error'.hidden /\ error'.msg # <<>>
         /\ slideshow' = slideshow
         /\ r \notin DOMAIN runs'
    ]_vars

\* C5 (as claimed, in the form a finite run refutes; Spec): every run that
\* disabled the input has re-enabled it by the time it ended: with no call of
\* generate() suspended, the input is enabled.
C5_InputReenabled == (DOMAIN runs = {}) => ~userInputDisabled

\* C6 (as claimed; Spec): at most one image-generation request is in flight.
C6_OneImageRequestInFlight ==
  Cardinality({r \in DOMAIN runs : runs[r].pc = "stream"}) <= 1

\* C7 (as claimed; SpecStream): in part_000 and in the per-panel loop of
\* part_001, the parts [text A, image I1, text B, image I2], however split
\* into chunks, give exactly the two slides (A, I1) and (B, I2).
C7_TwoSlidesFromABAB ==
  (build \in {"part_000", "part_001"} /\ sPc = "done" /\ received = PartsABAB) =>
    sSlides = <<Slide(<<"A">>, Img("I1")), Slide(<<"B">>, Img("I2"))>>

\* C7 (amended; SpecStream): when a stream of those parts, however split into
\* chunks, is consumed to its end without an exception, index.tsx and
\* part_000 have emitted exactly the slides (A, I1) and (B, I2); the per-panel
\* loop of part_001 pairs nothing and has emitted one slide, the panel text
\* with the last image I2.
C7_PairingPerBuild ==
  (sPc = "done" /\ received = PartsABAB) =>
    IF build = "part_001"
    THEN sSlides = <<Slide(PanelText(1), Img("I2"))>>
    ELSE sSlides = <<Slide(<<"A">>, Img("I1")), Slide(<<"B">>, Img("I2"))>>

C7_Witness ==
  /\ build = "part_000" /\ sPc = "done" /\ received = PartsABAB
  /\ Len(sSlides) = 2

\* C8 (as claimed; Spec): a call of generate() that starts a run leaves
\* nothing of earlier runs: the slide list and the story echo are empty, the
\* error is cleared and hidden, and the chat sessions hold no earlier turns.
C8_RunStartsClean ==
  [][started' = started + 1 =>
       /\ slideshow' = <<>>
       /\ modelOutput' = <<>>
       /\ error' = SetError(<<>>, FALSE)
       /\ ~textHistory' /\ ~imageHistory'
    ]_vars

\* C9 (Spec): an Enter key or example click whose story trims to the empty
\* string sends no request to the text model and changes no run state.
C9_BlankStoryStartsNothing ==
  [][\A v \in TypedValues \cup ExampleContents :
       (Trim(v) = <<>> /\ (KeyEnter(v) \/ ExampleClick(v))) =>
         UNCHANGED <<runs, started, lastEnded, userInputDisabled, modelOutput,
                     slideshow, slideshowHidden, status, error, textHistory,
                     imageHistory>>
    ]_vars

\* A white-space story was submitted while a run was suspended.
C9_Witness ==
  /\ textChat
  /\ userInputValue = <<" ">>
  /\ DOMAIN runs # {}

\* A response text that is a fenced script: white space, the opening fence
\* with the word json, white space, the bare text, white space, the closing
\* fence, white space.
Outer(s) == DropWhiteEnd(SkipWhite(s))
IsFenced(s) ==
  /\ Len(Outer(s)) >= 3
  /\ Outer(s)[1] = Fence /\ Outer(s)[2] = WordJson
  /\ Outer(s)[Len(Outer(s))] = Fence
BareOf(s) == SubSeq(Outer(s), 3, Len(Outer(s)) - 1)

\* C10 (as claimed; SpecScript): a fenced script, with any white space the
\* model puts around the fences, is parsed to the script its bare JSON
\* parses to.
C10_FencedParsesAsBare ==
  (/\ scriptPc = "returned"
   /\ jsonText # TransportError
   /\ IsFenced(jsonText)
   /\ JsonParse(BareOf(jsonText)) # SyntaxError) =>
    scriptResult = [script |-> JsonParse(BareOf(jsonText)), caught |-> FALSE]

\* The step of C11: the stream of a panel, or the script request, rejects.
\* The slides stay as they are, an error message is shown, and the call has
\* ended Failed: its frame is gone, so it issues no request again.
C11_Step ==
  \A r \in DOMAIN runs :
    (\/ runs[r].pc = "stream" /\ PanelStreamRejects(r)
     \/ runs[r].pc = "script" /\ ScriptResponse(r, TransportError, TRUE)) =>
      /\ slideshow' = slideshow
      /\ slideshowHidden' = slideshowHidden
      /\ ~error'.hidden /\ error'.msg # <<>>
      /\ r \notin DOMAIN runs'
      /\ lastEnded' = [run |-> r, outcome |-> "Failed"]

SlidesInPanelOrder(slides) ==
  \A i, j \in DOMAIN slides : \A r \in 1..MaxRuns : \A k1, k2 \in 1..MaxPanels :
    (/\ i < j
     /\ slides[i].image = Img(ImageOf(r, k1))
     /\ slides[j].image = Img(ImageOf(r, k2))) => k1 < k2

\* The step of C12: a run moves to a panel only from the panel before it,
\* in the step that appended that panel's slide.
C12_Step ==
  /\ \A r \in DOMAIN runs \cap DOMAIN runs' :
       runs'[r].panelCount # runs[r].panelCount =>
         /\ runs'[r].panelCount = runs[r].panelCount + 1
         /\ runs'[r].pc = "stream"
         /\ runs[r].pc = "stream" =>
              slideshow' = Append(slideshow,
                                  Slide(runs[r].panels[runs[r].panelCount],
                                        Img(ImageOf(r, runs[r].panelCount))))
  /\ SlidesInPanelOrder(slideshow')

\* C12 (Spec): within a run the image requests are issued in script order,
\* one after another: the request for panel i+1 is issued only in the step
\* that ends the stream of panel i and appends its slide, and the slides of a
\* run appear in the order of its panels.
C12_PanelsInScriptOrder == [][C12_Step]_vars

\* Both panels of a two-panel script of one run are rendered.
C12_Witness ==
  \E r \in 1..MaxRuns :
    /\ Len(slideshow) = 2
    /\ slideshow[1].image = Img(ImageOf(r, 1))
    /\ slideshow[2].image = Img(ImageOf(r, 2))

\* The image parts of a stream, and the data of the last of them.
HasImage(parts) == \E i \in DOMAIN parts : parts[i].inlineData # NoData
LastImage(parts) ==
  parts[CHOOSE i \in DOMAIN parts :
          /\ parts[i].inlineData # NoData
          /\ \A j \in DOMAIN parts : j > i => parts[j].inlineData = NoData].inlineData

\* The step of C13: the stream of panel k of a run is exhausted (and
\* marked.parse returns).  Without an image part in this stream no slide is
\* appended, whatever the panels before it held; with one, the slide
\* appended is the script text of panel k and the last image of this stream.
C13_Step ==
  \A r \in DOMAIN runs :
    runs[r].pc = "stream" =>
      \A parts \in SeqsUpTo(PageParts(r, runs[r].panelCount), MaxStream) :
        PanelStreamEnds(r, parts, 1) =>
          IF HasImage(parts)
          THEN slideshow' = Append(slideshow,
                                   Slide(runs[r].panels[runs[r].panelCount],
                                         Img(LastImage(parts))))
          ELSE slideshow' = slideshow /\ r \notin DOMAIN runs'

\* C13 (Spec): text and img are scoped to one panel: each panel's stream
\* starts with an empty text accumulator and no held image, so the slide of
\* a panel never carries text or an image received in another panel's
\* stream, and a panel whose stream has no image gets no slide.
C13_BuffersPerPanel == [][C13_Step]_vars

\* Panel 2 failed for want of an image after panel 1 was rendered.
C13_Witness ==
  /\ lastEnded.outcome = "Failed"
  /\ error.msg # <<>> /\ error.msg[Len(error.msg)] = "noimage"
  /\ error.msg[2] = "2"
  /\ Len(slideshow) = 1

\* The step of C17: run r ends Failed in its panel loop at panel k.  The
\* error shown is the Panel-k-Failed message with the text of panel k.
C17_Step ==
  \A r \in DOMAIN runs :
    (/\ runs[r].pc = "stream"
     /\ r \notin DOMAIN runs'
     /\ lastEnded' = [run |-> r, outcome |-> "Failed"]) =>
      \E cause \in {"stream", "noimage", "render"} :
        error' = [msg |-> <<"Panel", ToString(runs[r].panelCount), "Failed">>
                            \o runs[r].panels[runs[r].panelCount] \o <<cause>>,
                  hidden |-> FALSE]

\* C17 (Spec): when panel k (1-based) of a script fails, the error shown
\* carries the index k and the text of panel k, of no other panel.
C17_FailureNamesPanel == [][C17_Step]_vars

\* The second panel of a script failed.
C17_Witness ==
  /\ lastEnded.outcome = "Failed"
  /\ ~error.hidden
  /\ Len(error.msg) >= 3
  /\ error.msg[1] = "Panel" /\ error.msg[2] = "2" /\ error.msg[3] = "Failed"

\* C14 (as claimed; Spec): a run that ends Done, every panel's stream having
\* yielded an image, leaves exactly panels.length slides rendered and
\* visible, the status cleared and hidden, no error shown and the input
\* enabled.
C14_DoneLeavesAllSlides ==
  [][\A r \in DOMAIN runs :
       (r \notin DOMAIN runs' /\ lastEnded' = [run |-> r, outcome |-> "Done"]) =>
         /\ Len(slideshow') = Len(runs[r].panels)
         /\ ~slideshowHidden'
         /\ status' = SetStatus(<<>>, FALSE)
         /\ error'.hidden
         /\ ~userInputDisabled'
    ]_vars

\* C18 (as claimed; Spec): while a run is active the slideshow holds at most
\* one slide per panel whose request was issued, and its k-th slide is the
\* script text of the run's k-th panel with the image of that panel's stream.
C18_OneSlidePerPanel ==
  \A r \in DOMAIN runs :
    /\ Len(slideshow) <= runs[r].panelCount
    /\ \A k \in DOMAIN slideshow :
         slideshow[k] = Slide(runs[r].panels[k], Img(ImageOf(r, k)))

\* C19 (as claimed; Spec): the status indicator is shown only while the
\* input is disabled.
C19_StatusOnlyWhileDisabled == ~status.hidden => userInputDisabled

\* The received parts cut into segments: a segment ends at the first part
\* with which it holds both a text part and an image part.
HasText(parts) == \E i \in DOMAIN parts : parts[i].text # <<>>
CutAfter(parts, lo) ==
  LET Both(j) == HasText(SubSeq(parts, lo, j)) /\ HasImage(SubSeq(parts, lo, j))
  IN  IF \E j \in lo..Len(parts) : Both(j)
      THEN CHOOSE j \in lo..Len(parts) :
             Both(j) /\ \A i \in lo..(j - 1) : ~Both(i)
      ELSE 0
RECURSIVE Cuts(_, _)
Cuts(parts, lo) ==
  LET j == CutAfter(parts, lo)
  IN  IF j = 0 THEN <<>> ELSE <<j>> \o Cuts(parts, j + 1)
Segment(parts, k) ==
  LET c == Cuts(parts, 1)
  IN  SubSeq(parts, IF k = 1 THEN 1 ELSE c[k - 1] + 1, c[k])
Leftover(parts) ==
  LET c == Cuts(parts, 1)
  IN  SubSeq(parts, IF c = <<>> THEN 1 ELSE c[Len(c)] + 1, Len(parts))
HeldImage(parts) == IF HasImage(parts) THEN Img(LastImage(parts)) ELSE NullImg
RECURSIVE ConcatText(_)
ConcatText(parts) ==
  IF parts = <<>> THEN <<>> ELSE Head(parts).text \o ConcatText(Tail(parts))

\* C15 (SpecStream): the held image is the most recently received one.  In
\* part_000 every slide carries the last image part received since the
\* slide before it, and the image held between slides is the last one of the
\* parts left over; in the per-panel loop of part_001 the image held, and
\* the one of the slide emitted at the end of the stream, is the last image
\* part of the stream.  Earlier images are dropped.
C15_LastImageWins ==
  /\ (build = "part_000" /\ ~sError) =>
       /\ Len(sSlides) = Len(Cuts(received, 1))
       /\ \A k \in DOMAIN sSlides :
            sSlides[k].image = Img(LastImage(Segment(received, k)))
       /\ sImg = HeldImage(Leftover(received))
  /\ (build = "part_001" /\ ~sError) =>
       /\ sImg = HeldImage(received)
       /\ sPc = "done" => Len(sSlides) = 1 /\ sSlides[1].image = sImg

\* Two images arrived before the text they were paired with.
C15_Witness ==
  /\ build = "part_000" /\ ~sError
  /\ Len(received) >= 3
  /\ received[1] = ImagePart("I1") /\ received[2] = ImagePart("I2")
  /\ received[3] = TextPart(<<"A">>)
  /\ sSlides # <<>> /\ sSlides[1].image = Img("I2")

\* C16 (as claimed; SpecStream): in part_000 and in the per-panel loop of
\* part_001 the text of every slide is the concatenation, in arrival order,
\* of the text parts received since the slide before it.
C16_SlideTextIsConcatenation ==
  /\ (build = "part_000" /\ ~sError) =>
       /\ Len(sSlides) = Len(Cuts(received, 1))
       /\ \A k \in DOMAIN sSlides :
            sSlides[k].caption = Marked(ConcatText(Segment(received, k)))
  /\ (build = "part_001" /\ ~sError) =>
       \A k \in DOMAIN sSlides :
         sSlides[k].caption = Marked(ConcatText(received))

\* C16 (amended; SpecStream): text parts are concatenated, not replaced.  In
\* part_000 the text of every slide is the concatenation, in arrival order,
\* of the text parts received since the slide before it, and the accumulator
\* between slides is the concatenation of the text parts left over.  In the
\* per-panel loop of part_001 the accumulator is the concatenation of all
\* text parts of the stream, and the slide carries the script text of the
\* panel, not the accumulated text.
C16_TextAccumulates ==
  /\ (build = "part_000" /\ ~sError) =>
       /\ Len(sSlides) = Len(Cuts(received, 1))
       /\ \A k \in DOMAIN sSlides :
            sSlides[k].caption = Marked(ConcatText(Segment(received, k)))
       /\ sText = ConcatText(Leftover(received))
  /\ (build = "part_001" /\ ~sError) =>
       /\ sText = ConcatText(received)
       /\ \A k \in DOMAIN sSlides : sSlides[k].caption = Marked(PanelText(1))

\* Two text fragments arrived before the image they were paired with.
C16_Witness ==
  /\ build = "part_000" /\ ~sError
  /\ Len(received) >= 3
  /\ received[1] = TextPart(<<"A">>) /\ received[2] = TextPart(<<"B">>)
  /\ received[3] = ImagePart("I1")
  /\ sSlides # <<>> /\ sSlides[1].caption = <<"<p>", "A", "B", "</p>">>

====
